---- MODULE Spec2Model ----
(***************************************************************************)
(* Model of floqast_sftp/app.py: the Lambda handler that fetches monthly   *)
(* balance CSVs over HTTP and uploads them over SFTP.                      *)
(*                                                                         *)
(* Python strings are modelled as sequences of one-character strings, so   *)
(* that parsing and formatting are computed character by character.        *)
(* A call that may raise is modelled as a record [ok, val, exc].           *)
(***************************************************************************)
EXTENDS Integers, Sequences, FiniteSets, TLC

(***************************************************************************)
(* Bounds of the model                                                     *)
(***************************************************************************)
\* largest period_count an event of the model asks for
MaxPeriodCount == 3

\* longest base URL given to get_csv_url on its own
MaxUrlLen == 3

(***************************************************************************)
(* Results and exceptions                                                  *)
(***************************************************************************)
NoExc == [type |-> "none", origin |-> "none", at |-> 0]

Exc(type, origin, at) == [type |-> type, origin |-> origin, at |-> at]

Ok(v) == [ok |-> TRUE, val |-> v, exc |-> NoExc]

Raise(type, origin) == [ok |-> FALSE, val |-> 0, exc |-> Exc(type, origin, 0)]

(***************************************************************************)
(* Python's int(): strings                                                 *)
(***************************************************************************)
Digits == {"0", "1", "2", "3", "4", "5", "6", "7", "8", "9"}

DigitVal == ("0" :> 0) @@ ("1" :> 1) @@ ("2" :> 2) @@ ("3" :> 3) @@ ("4" :> 4)
            @@ ("5" :> 5) @@ ("6" :> 6) @@ ("7" :> 7) @@ ("8" :> 8) @@ ("9" :> 9)

DigitChar == <<"0", "1", "2", "3", "4", "5", "6", "7", "8", "9">>

RECURSIVE LStrip(_)
LStrip(s) == IF s # <<>> /\ Head(s) = " " THEN LStrip(Tail(s)) ELSE s

RECURSIVE RStrip(_)
RStrip(s) ==
    IF s # <<>> /\ s[Len(s)] = " " THEN RStrip(SubSeq(s, 1, Len(s) - 1)) ELSE s

RECURSIVE DigitsValue(_, _)
DigitsValue(s, acc) ==
    IF s = <<>> THEN acc ELSE DigitsValue(Tail(s), 10 * acc + DigitVal[Head(s)])

\* int(str): surrounding whitespace is ignored, one optional sign, then one
\* or more decimal digits; anything else is a ValueError.
IntOfStr(str) ==
    LET s    == RStrip(LStrip(str))
        neg  == s # <<>> /\ Head(s) = "-"
        sign == s # <<>> /\ Head(s) \in {"-", "+"}
        body == IF sign THEN Tail(s) ELSE s
    IN  IF body # <<>> /\ \A i \in 1..Len(body) : body[i] \in Digits
        THEN Ok(IF neg THEN 0 - DigitsValue(body, 0) ELSE DigitsValue(body, 0))
        ELSE Raise("ValueError", "int")

\* int(x) for the values a JSON event can hold: an int is returned as is, a
\* float (kept in halves) is truncated towards zero, a string is parsed, and
\* null or a list is a TypeError.
PyInt(x) ==
    CASE x.t = "int"   -> Ok(x.v)
      [] x.t = "float" -> Ok(IF x.v >= 0 THEN x.v \div 2 ELSE 0 - ((0 - x.v) \div 2))
      [] x.t = "str"   -> IntOfStr(x.s)
      [] OTHER         -> Raise("TypeError", "int")

VInt(n) == [t |-> "int", v |-> n, s |-> <<>>]
VFloat(halves) == [t |-> "float", v |-> halves, s |-> <<>>]
VStr(str) == [t |-> "str", v |-> 0, s |-> str]
VNone == [t |-> "none", v |-> 0, s |-> <<>>]

(***************************************************************************)
(* datetime.date                                                           *)
(***************************************************************************)
MINYEAR == 1
MAXYEAR == 9999

IsLeap(y) == (y % 4 = 0) /\ ((y % 100 # 0) \/ (y % 400 = 0))

DaysInMonth(y, m) ==
    CASE m \in {1, 3, 5, 7, 8, 10, 12} -> 31
      [] m \in {4, 6, 9, 11}           -> 30
      [] OTHER                         -> IF IsLeap(y) THEN 29 ELSE 28

Date(y, m, d) == [year |-> y, month |-> m, day |-> d]

NoDate == Date(0, 0, 0)

ValidDate(dt) ==
    /\ dt.year \in MINYEAR..MAXYEAR
    /\ dt.month \in 1..12
    /\ dt.day \in 1..DaysInMonth(dt.year, dt.month)

\* date.replace(year=y, month=m): the constructor checks the new fields and
\* raises ValueError when they do not form a calendar date.
DateReplace(dt, y, m) ==
    IF ValidDate(Date(y, m, dt.day))
    THEN [ok |-> TRUE, val |-> Date(y, m, dt.day), exc |-> NoExc]
    ELSE [ok |-> FALSE, val |-> NoDate, exc |-> Exc("ValueError", "date.replace", 0)]

\* mutant: the January case forgets to step the year back
get_previous_month_SameYear(_date) ==
    IF _date.month = 1
    THEN DateReplace(_date, _date.year, 12)
    ELSE DateReplace(_date, _date.year, _date.month - 1)

get_previous_month(_date) ==
    IF _date.month = 1
    THEN DateReplace(_date, _date.year - 1, 12)
    ELSE DateReplace(_date, _date.year, _date.month - 1)

\* Dates compare by (year, month, day).
DateLess(a, b) ==
    \/ a.year < b.year
    \/ a.year = b.year /\ a.month < b.month
    \/ a.year = b.year /\ a.month = b.month /\ a.day < b.day

Pad(n, width) ==
    [i \in 1..width |-> DigitChar[((n \div (10 ^ (width - i))) % 10) + 1]]

\* date.isoformat(): YYYY-MM-DD
isoformat(dt) == Pad(dt.year, 4) \o <<"-">> \o Pad(dt.month, 2) \o <<"-">> \o Pad(dt.day, 2)

(***************************************************************************)
(* The EventBridge event: a dict from some of the three keys to a value    *)
(***************************************************************************)
get_event_param(event, param) ==
    IF param \notin DOMAIN event
    THEN [ok |-> FALSE, val |-> VNone, exc |-> Exc("ValueError", "get_event_param", 0)]
    ELSE [ok |-> TRUE, val |-> event[param], exc |-> NoExc]

\* mutant: the lower bound is checked as < 0, so 0 is accepted
get_period_count_ZeroAccepted(event) ==
    LET count_str == get_event_param(event, "period_count")
        parsed    == PyInt(count_str.val)
    IN  IF ~count_str.ok THEN [ok |-> FALSE, val |-> 0, exc |-> count_str.exc]
        ELSE IF ~parsed.ok THEN Raise("ValueError", "get_period_count")
        ELSE IF parsed.val < 0 THEN Raise("ValueError", "get_period_count")
        ELSE Ok(parsed.val)

get_period_count(event) ==
    LET count_str == get_event_param(event, "period_count")
        parsed    == PyInt(count_str.val)
    IN  IF ~count_str.ok THEN [ok |-> FALSE, val |-> 0, exc |-> count_str.exc]
        ELSE IF ~parsed.ok \* except (TypeError, ValueError)
        THEN Raise("ValueError", "get_period_count")
        ELSE IF parsed.val < 1 THEN Raise("ValueError", "get_period_count")
        ELSE Ok(parsed.val)

(***************************************************************************)
(* get_ssm_params: the part after the call to the secrets store            *)
(***************************************************************************)
K_user == <<"u", "s", "e", "r">>
K_pass == <<"p", "a", "s", "s">>
K_host == <<"h", "o", "s", "t">>
K_port == <<"p", "o", "r", "t">>

DefaultPort == 22

\* mutant: host is not among the required keys
RequiredKeys_NoHost == <<K_user, K_pass>>

RequiredKeys == <<K_user, K_pass, K_host>>

\* str.split("/")[-1]: what follows the last "/", the whole string if none
RECURSIVE LastSegment(_)
LastSegment(name) ==
    IF \E i \in 1..Len(name) : name[i] = "/"
    THEN LastSegment(Tail(name))
    ELSE name

\* the loop over response["Parameters"]: a later entry replaces an earlier
\* one of the same key
RECURSIVE BuildParams(_, _)
BuildParams(parameters, params) ==
    IF parameters = <<>> THEN params
    ELSE LET p    == Head(parameters)
             _key == LastSegment(p.Name)
         IN  BuildParams(Tail(parameters), (_key :> VStr(p.Value)) @@ params)

EmptyDict == [k \in {} |-> VNone]

\* mutant: a port that is present is returned as the string it was stored as
get_ssm_params_PortNotConverted(response) ==
    LET params  == BuildParams(response, EmptyDict)
        missing == {i \in 1..Len(RequiredKeys) : RequiredKeys[i] \notin DOMAIN params}
    IN  IF missing # {}
        THEN [ok |-> FALSE, val |-> EmptyDict, exc |-> Exc("KeyError", "get_ssm_params", 0)]
        ELSE IF K_port \in DOMAIN params
        THEN [ok |-> TRUE, val |-> params, exc |-> NoExc]
        ELSE [ok |-> TRUE, val |-> (K_port :> VInt(DefaultPort)) @@ params, exc |-> NoExc]

get_ssm_params(response) ==
    LET params  == BuildParams(response, EmptyDict)
        missing == {i \in 1..Len(RequiredKeys) : RequiredKeys[i] \notin DOMAIN params}
        port    == IntOfStr(params[K_port].s)
    IN  IF missing # {}
        THEN [ok |-> FALSE, val |-> EmptyDict, exc |-> Exc("KeyError", "get_ssm_params", 0)]
        ELSE IF K_port \in DOMAIN params
        THEN IF port.ok
             THEN [ok |-> TRUE, val |-> (K_port :> VInt(port.val)) @@ params, exc |-> NoExc]
             ELSE [ok |-> FALSE, val |-> EmptyDict,
                   exc |-> Exc("ValueError", "get_ssm_params", 0)]
        ELSE [ok |-> TRUE, val |-> (K_port :> VInt(DefaultPort)) @@ params, exc |-> NoExc]

Param(key, value) == [Name |-> <<"p", "/">> \o key, Value |-> value]

(***************************************************************************)
(* get_csv_url, get_file_name, get_balances_csv                            *)
(*                                                                         *)
(* A string literal of the source is kept as one piece of the sequence;    *)
(* the strings that come from outside (event values, secrets, CSV fields   *)
(* the code parses) are sequences of single characters.                    *)
(***************************************************************************)
NoStr == <<>>

\* mutant: the query is always introduced with "?"
get_csv_url_AlwaysQuestionMark(event, when) ==
    LET base_url == get_event_param(event, "mip_api_balances_url")
        url_add  == <<"show_inactive_codes&target_date=">> \o when
    IN  IF ~base_url.ok THEN [ok |-> FALSE, val |-> NoStr, exc |-> base_url.exc]
        ELSE [ok |-> TRUE, val |-> base_url.val.s \o <<"?">> \o url_add, exc |-> NoExc]

get_csv_url(event, when) ==
    LET base_url == get_event_param(event, "mip_api_balances_url")
        url_add  == <<"show_inactive_codes&target_date=">> \o when
    IN  IF ~base_url.ok THEN [ok |-> FALSE, val |-> NoStr, exc |-> base_url.exc]
        ELSE IF \E i \in 1..Len(base_url.val.s) : base_url.val.s[i] = "?"
        THEN [ok |-> TRUE, val |-> base_url.val.s \o <<"&">> \o url_add, exc |-> NoExc]
        ELSE [ok |-> TRUE, val |-> base_url.val.s \o <<"?">> \o url_add, exc |-> NoExc]

MonthName == <<"January", "February", "March", "April", "May", "June", "July",
               "August", "September", "October", "November", "December">>

AllDigits(s) == \A i \in 1..Len(s) : s[i] \in Digits

\* date.fromisoformat of a YYYY-MM-DD string
fromisoformat(str) ==
    IF /\ Len(str) = 10
       /\ str[5] = "-" /\ str[8] = "-"
       /\ AllDigits(SubSeq(str, 1, 4)) /\ AllDigits(SubSeq(str, 6, 7))
       /\ AllDigits(SubSeq(str, 9, 10))
       /\ ValidDate(Date(DigitsValue(SubSeq(str, 1, 4), 0),
                         DigitsValue(SubSeq(str, 6, 7), 0),
                         DigitsValue(SubSeq(str, 9, 10), 0)))
    THEN [ok |-> TRUE,
          val |-> Date(DigitsValue(SubSeq(str, 1, 4), 0),
                       DigitsValue(SubSeq(str, 6, 7), 0),
                       DigitsValue(SubSeq(str, 9, 10), 0)),
          exc |-> NoExc]
    ELSE [ok |-> FALSE, val |-> NoDate, exc |-> Exc("ValueError", "date.fromisoformat", 0)]

\* datetime.now().strftime("%Y%m%d%H%M%S")
Timestamp(now) ==
    Pad(now.date.year, 4) \o Pad(now.date.month, 2) \o Pad(now.date.day, 2)
    \o Pad(now.hour, 2) \o Pad(now.minute, 2) \o Pad(now.second, 2)

get_file_name(_period, now) ==
    LET _date == fromisoformat(_period)
        _period_month == <<MonthName[_date.val.month], "-">> \o Pad(_date.val.year, 4)
    IN  IF ~_date.ok THEN [ok |-> FALSE, val |-> NoStr, exc |-> _date.exc]
        ELSE [ok |-> TRUE,
              val |-> <<"Sage-Balances-">> \o _period_month \o <<"-">>
                      \o Timestamp(now) \o <<".csv">>,
              exc |-> NoExc]

\* io.StringIO: the text as its lines and a read position counted in lines
StringIO(lines) == [lines |-> lines, pos |-> 0]

NoFile == [lines |-> <<>>, pos |-> 0]

\* the reader consuming k more lines of the stream
ReadLines(f, k) == [f EXCEPT !.pos = @ + k]

\* mutant: the stream is left where the reader stopped
Seek_NotRewound(f, offset) == f

\* file_obj.seek(offset)
Seek(f, offset) == [f EXCEPT !.pos = offset]

\* what a read() of the stream returns: the lines from the position on
Remaining(f) == SubSeq(f.lines, f.pos + 1, Len(f.lines))

NoReport == [name |-> NoStr, file_obj |-> NoFile]

IndexOf(seq, x) == CHOOSE i \in 1..Len(seq) : seq[i] = x /\ \A j \in 1..(i - 1) : seq[j] # x

\* mutant: the period is read from the last row of the CSV, not the first
get_balances_csv_LastRow(resp, now) ==
    LET file_obj == StringIO(resp.lines)
        header   == resp.lines[1]
        rows     == {i \in 2..Len(resp.lines) : resp.lines[i] # <<>>}
        last     == CHOOSE i \in rows : \A j \in rows : i >= j
        row      == resp.lines[last]
        col      == IndexOf(header, <<"PeriodStart">>)
        filename == get_file_name(row[col], now)
        fail(e)  == [ok |-> FALSE, val |-> NoReport, exc |-> e]
    IN  IF resp.status = 0 THEN fail(Exc("ConnectionError", "requests.get", 0))
        ELSE IF resp.status >= 400 THEN fail(Exc("HTTPError", "raise_for_status", 0))
        ELSE IF rows = {} THEN fail(Exc("StopIteration", "next", 0))
        ELSE IF \A i \in 1..Len(header) : header[i] # <<"PeriodStart">>
        THEN fail(Exc("KeyError", "get_balances_csv", 0))
        ELSE IF col > Len(row) THEN fail(Exc("TypeError", "date.fromisoformat", 0))
        ELSE IF ~filename.ok THEN fail(filename.exc)
        ELSE [ok |-> TRUE,
              val |-> [name |-> filename.val,
                       file_obj |-> Seek(ReadLines(file_obj, last), 0)],
              exc |-> NoExc]

\* get_balances_csv once requests.get has answered: resp is the server's
\* answer [status, lines], each line of the body a sequence of fields.
get_balances_csv(resp, now) ==
    LET file_obj == StringIO(resp.lines)
        \* csv.DictReader: the first line is the header, next() returns the
        \* first row after it that is not a blank line
        header   == resp.lines[1]
        rows     == {i \in 2..Len(resp.lines) : resp.lines[i] # <<>>}
        first    == CHOOSE i \in rows : \A j \in rows : i <= j
        row      == resp.lines[first]
        col      == IndexOf(header, <<"PeriodStart">>)
        filename == get_file_name(row[col], now)
        fail(e)  == [ok |-> FALSE, val |-> NoReport, exc |-> e]
    IN  IF resp.status = 0 THEN fail(Exc("ConnectionError", "requests.get", 0))
        ELSE IF resp.status >= 400 THEN fail(Exc("HTTPError", "raise_for_status", 0))
        ELSE IF rows = {} THEN fail(Exc("StopIteration", "next", 0))
        ELSE IF \A i \in 1..Len(header) : header[i] # <<"PeriodStart">>
        THEN fail(Exc("KeyError", "get_balances_csv", 0))
        ELSE IF col > Len(row) \* a short row: the field is None
        THEN fail(Exc("TypeError", "date.fromisoformat", 0))
        ELSE IF ~filename.ok THEN fail(filename.exc)
        ELSE [ok |-> TRUE,
              \* the reader has consumed the lines up to the first row
              val |-> [name |-> filename.val,
                       file_obj |-> Seek(ReadLines(file_obj, first), 0)],
              exc |-> NoExc]

(***************************************************************************)
(* Inputs of the model                                                     *)
(***************************************************************************)
\* an event value is absent (<<>>) or present (<<v>>)
CountOpts ==
    {<<>>, <<VNone>>, <<VInt(0)>>, <<VInt(0 - 1)>>, <<VFloat(1)>>, <<VFloat(3)>>,
     <<VStr(<<"0">>)>>, <<VStr(<<"i", "n", "v", "a", "l", "i", "d">>)>>,
     <<VStr(<<>>)>>, <<VStr(<<" ", "1">>)>>, <<VStr(<<"1", ".", "5">>)>>}
    \cup {<<VInt(n)>> : n \in 1..MaxPeriodCount}
    \cup {<<VStr(Pad(n, 1))>> : n \in 1..MaxPeriodCount}

PrefixOpts == {<<>>, <<VStr(<<"p", "/">>)>>}

UrlOpts == {<<>>, <<VStr(<<"h">>)>>, <<VStr(<<"h", "?", "f">>)>>}

EventOf(c, p, u) ==
    LET opt == [k \in {"period_count", "ssm_secret_prefix", "mip_api_balances_url"} |->
                  CASE k = "period_count" -> c
                    [] k = "ssm_secret_prefix" -> p
                    [] OTHER -> u]
    IN  [k \in {x \in DOMAIN opt : opt[x] # <<>>} |-> opt[k][1]]

Events == {EventOf(c, p, u) : c \in CountOpts, p \in PrefixOpts, u \in UrlOpts}

\* what date.today() may return
TodayDates ==
    {Date(2025, 3, 1), Date(2025, 1, 4), Date(2025, 4, 4), Date(2025, 3, 31),
     Date(2024, 3, 30), Date(2025, 5, 31), Date(2024, 1, 31)}

\* what datetime.now() may return
Nows == {[date |-> Date(2025, 4, 4), hour |-> 10, minute |-> 10, second |-> 10],
         [date |-> Date(2025, 12, 1), hour |-> 0, minute |-> 5, second |-> 9]}

\* what the secrets store may answer
SsmResponses ==
    {<<Param(K_user, <<"u">>), Param(K_pass, <<"w">>), Param(K_host, <<"h">>),
       Param(K_port, <<"2", "2">>)>>,
     <<Param(K_user, <<"u">>), Param(K_pass, <<"w">>), Param(K_host, <<"h">>)>>,
     <<Param(K_user, <<"u">>), Param(K_pass, <<"w">>)>>,
     <<Param(K_user, <<"u">>), Param(K_pass, <<"w">>), Param(K_host, <<"h">>),
       Param(K_port, <<"i", "n", "v", "a", "l", "i", "d">>)>>,
     <<Param(K_user, <<>>), Param(K_pass, <<"w">>), Param(K_host, <<"h">>),
       Param(K_port, <<"2", "2", "2", "2">>)>>}

CsvHeader == <<<<"AccountName">>, <<"PeriodStart">>, <<"PeriodEnd">>, <<"Activity">>>>

CsvRow(start) == <<<<"T">>, start, start, <<"0">>>>

FirstOfMonth(dt) == Date(dt.year, dt.month, 1)

\* what the balances API may answer to a request for the reference date
HttpResponses(dt) ==
    {[status |-> 0, lines |-> <<>>],
     [status |-> 500, lines |-> <<>>],
     [status |-> 200, lines |-> <<>>],
     [status |-> 200, lines |-> <<CsvHeader>>],
     [status |-> 200, lines |-> <<<<<<"AccountName">>>>, <<<<"T">>>>>>],
     [status |-> 200, lines |-> <<CsvHeader, <<<<"T">>>>>>],
     [status |-> 200, lines |-> <<CsvHeader, CsvRow(<<"x">>)>>],
     [status |-> 200, lines |-> <<CsvHeader, CsvRow(isoformat(FirstOfMonth(dt)))>>],
     [status |-> 200, lines |-> <<CsvHeader, <<>>>>],
     [status |-> 200,
      lines |-> <<CsvHeader, <<>>, CsvRow(isoformat(Date(2024, 12, 1))),
                  CsvRow(isoformat(Date(2025, 1, 1)))>>]}

(***************************************************************************)
(* State of one invocation of lambda_handler                               *)
(***************************************************************************)
VARIABLES
    event,         \* the event the handler was invoked with
    pc,            \* the statement of lambda_handler about to run
    period_count,  \* local: number of periods
    auth,          \* local: the credentials get_ssm_params returned
    transport,     \* the paramiko.Transport: "none", "open" or "closed"
    client,        \* the paramiko.SFTPClient: "none", "open" or "closed"
    period,        \* local: the reference date of the iteration
    iter,          \* number of loop iterations started
    url,           \* local: the URL of the iteration
    report,        \* local: name and file_obj of the iteration
    pending,       \* the exception that left the try block, if any
    exc,           \* the exception the handler raised to its caller
    result,        \* "running", "returned" or "raised"
    calls,         \* history: the calls made to the outside world, and the
                   \* previous-month steps of the loop, in order
    fn,            \* function under check in the pure-function specifications
    fn_arg,        \* its argument
    fn_res         \* its result

hvars == <<event, pc, period_count, auth, transport, client, period, iter, url,
           report, pending, exc, result, calls>>

fvars == <<fn, fn_arg, fn_res>>

vars == <<event, pc, period_count, auth, transport, client, period, iter, url,
          report, pending, exc, result, calls, fn, fn_arg, fn_res>>

\* one call to the outside world: what was called, for which reference date,
\* and the exception the step raised (NoExc when it succeeded)
Call(op, dt, e) == [op |-> op, date |-> dt, exc |-> e]

\* requests.get in get_balances_csv: the call, and the body the server sent
GetCall(dt, e, body) == [op |-> "get", date |-> dt, exc |-> e, body |-> body]

\* client.putfo(fl=file_obj, remotepath=name): the call, the remote name and
\* what putfo reads from the stream, which is what lies after its position
PutCall(dt, e, rep) ==
    [op |-> "putfo", date |-> dt, exc |-> e, name |-> rep.name,
     content |-> Remaining(rep.file_obj)]

HandlerInit ==
    /\ pc = "get_period_count"
    /\ period_count = 0
    /\ auth = EmptyDict
    /\ transport = "none"
    /\ client = "none"
    /\ period = NoDate
    /\ iter = 0
    /\ url = NoStr
    /\ report = NoReport
    /\ pending = NoExc
    /\ exc = NoExc
    /\ result = "running"
    /\ calls = <<>>

Init ==
    /\ event \in Events
    /\ HandlerInit
    /\ fn = "none" /\ fn_arg = 0 /\ fn_res = 0

\* an exception outside the try statement leaves the handler
RaiseToCaller(e) ==
    /\ exc' = e
    /\ result' = "raised"
    /\ pc' = "done"

\* mutant: on an exception only the transport is closed
RaiseInTry_SkipClientClose(e) ==
    /\ pending' = e
    /\ pc' = "transport_close"

\* an exception inside the try statement runs the finally clause first
RaiseInTry(e) ==
    /\ pending' = e
    /\ pc' = "client_close"

\* line 302: period_count = get_period_count(event)
GetPeriodCount ==
    /\ pc = "get_period_count"
    /\ LET r == get_period_count(event)
       IN  IF r.ok
           THEN /\ period_count' = r.val
                /\ pc' = "get_ssm_params"
                /\ UNCHANGED <<exc, result>>
           ELSE /\ RaiseToCaller(r.exc)
                /\ UNCHANGED period_count
    /\ UNCHANGED <<event, auth, transport, client, period, iter, url, report,
                   pending, calls, fn, fn_arg, fn_res>>

\* lines 306-307: the prefix is read from the event, then get_ssm_params asks
\* the secrets store, which answers or fails
GetSsmParams ==
    /\ pc = "get_ssm_params"
    /\ LET ssm_prefix == get_event_param(event, "ssm_secret_prefix")
       IN  IF ~ssm_prefix.ok
           THEN /\ RaiseToCaller(ssm_prefix.exc)
                /\ UNCHANGED <<auth, calls>>
           ELSE \/ /\ calls' = Append(calls, Call("ssm", NoDate,
                                   Exc("ClientError", "get_parameters_by_path", 0)))
                   /\ RaiseToCaller(Exc("ClientError", "get_parameters_by_path", 0))
                   /\ UNCHANGED auth
                \/ \E response \in SsmResponses :
                     LET r == get_ssm_params(response)
                     IN  /\ calls' = Append(calls, Call("ssm", NoDate, NoExc))
                         /\ IF r.ok
                            THEN /\ auth' = r.val
                                 /\ pc' = "get_sftp_client"
                                 /\ UNCHANGED <<exc, result>>
                            ELSE /\ RaiseToCaller(r.exc)
                                 /\ UNCHANGED auth
    /\ UNCHANGED <<event, period_count, transport, client, period, iter, url,
                   report, pending, fn, fn_arg, fn_res>>

\* mutant: a failure of SFTPClient.from_transport is ignored and the handler
\* goes on without a client
GetSftpClient_FailureIgnored ==
    /\ pc = "get_sftp_client"
    /\ \/ /\ calls' = Append(calls, Call("Transport", NoDate,
                                         Exc("SSHException", "Transport", 0)))
          /\ RaiseToCaller(Exc("SSHException", "Transport", 0))
          /\ UNCHANGED <<transport, client>>
       \/ /\ calls' = calls \o <<Call("Transport", NoDate, NoExc),
                                 Call("connect", NoDate, Exc("SSHException", "connect", 0))>>
          /\ RaiseToCaller(Exc("SSHException", "connect", 0))
          /\ transport' \in {"open", "closed"}
          /\ UNCHANGED client
       \/ /\ calls' = calls \o <<Call("Transport", NoDate, NoExc),
                                 Call("connect", NoDate, NoExc),
                                 Call("from_transport", NoDate,
                                      Exc("SSHException", "from_transport", 0))>>
          /\ transport' = "open"
          /\ pc' = "today"
          /\ UNCHANGED <<client, exc, result>>
       \/ /\ calls' = calls \o <<Call("Transport", NoDate, NoExc),
                                 Call("connect", NoDate, NoExc),
                                 Call("from_transport", NoDate, NoExc)>>
          /\ transport' = "open"
          /\ client' = "open"
          /\ pc' = "today"
          /\ UNCHANGED <<exc, result>>
    /\ UNCHANGED <<event, period_count, auth, period, iter, url, report, pending,
                   fn, fn_arg, fn_res>>

\* line 309 and get_sftp_client (lines 106-109): the Transport is created
\* (which connects the socket), authenticated, and the SFTP client is opened
\* on it; each of the three calls may raise, and nothing in get_sftp_client
\* or in the handler closes a transport that was created before the failure.
GetSftpClient ==
    /\ pc = "get_sftp_client"
    /\ \/ \* paramiko.Transport(...) raises: there is no transport
          /\ calls' = Append(calls, Call("Transport", NoDate,
                                         Exc("SSHException", "Transport", 0)))
          /\ RaiseToCaller(Exc("SSHException", "Transport", 0))
          /\ UNCHANGED <<transport, client>>
       \/ \* transport.connect raises: a failed negotiation stops the
          \* transport, a rejected password leaves it running
          /\ calls' = calls \o <<Call("Transport", NoDate, NoExc),
                                 Call("connect", NoDate, Exc("SSHException", "connect", 0))>>
          /\ RaiseToCaller(Exc("SSHException", "connect", 0))
          /\ transport' \in {"open", "closed"}
          /\ UNCHANGED client
       \/ \* SFTPClient.from_transport raises
          /\ calls' = calls \o <<Call("Transport", NoDate, NoExc),
                                 Call("connect", NoDate, NoExc),
                                 Call("from_transport", NoDate,
                                      Exc("SSHException", "from_transport", 0))>>
          /\ RaiseToCaller(Exc("SSHException", "from_transport", 0))
          /\ transport' = "open"
          /\ UNCHANGED client
       \/ /\ calls' = calls \o <<Call("Transport", NoDate, NoExc),
                                 Call("connect", NoDate, NoExc),
                                 Call("from_transport", NoDate, NoExc)>>
          /\ transport' = "open"
          /\ client' = "open"
          /\ pc' = "today"
          /\ UNCHANGED <<exc, result>>
    /\ UNCHANGED <<event, period_count, auth, period, iter, url, report, pending,
                   fn, fn_arg, fn_res>>

\* line 313: period = date.today()
Today ==
    /\ pc = "today"
    /\ \E d \in TodayDates : period' = d
    /\ pc' = "for"
    /\ UNCHANGED <<event, period_count, auth, transport, client, iter, url, report,
                   pending, exc, result, calls, fn, fn_arg, fn_res>>

\* line 314: for _ in range(period_count)
For ==
    /\ pc = "for"
    /\ IF iter < period_count
       THEN /\ iter' = iter + 1
            /\ pc' = "get_csv_url"
       ELSE /\ pc' = "client_close"
            /\ UNCHANGED iter
    /\ UNCHANGED <<event, period_count, auth, transport, client, period, url,
                   report, pending, exc, result, calls, fn, fn_arg, fn_res>>

\* lines 315-316: when = period.isoformat(); url = get_csv_url(event, when)
GetCsvUrl ==
    /\ pc = "get_csv_url"
    /\ LET r == get_csv_url(event, isoformat(period))
       IN  IF r.ok
           THEN /\ url' = r.val
                /\ pc' = "get_balances_csv"
                /\ UNCHANGED pending
           ELSE /\ RaiseInTry([r.exc EXCEPT !.at = iter])
                /\ UNCHANGED url
    /\ UNCHANGED <<event, period_count, auth, transport, client, period, iter,
                   report, exc, result, calls, fn, fn_arg, fn_res>>

\* line 317: name, file_obj = get_balances_csv(url)
GetBalancesCsv ==
    /\ pc = "get_balances_csv"
    /\ \E resp \in HttpResponses(period), now \in Nows :
         LET r == get_balances_csv(resp, now)
             e == IF r.ok THEN NoExc ELSE [r.exc EXCEPT !.at = iter]
         IN  /\ calls' = Append(calls, GetCall(period, e, resp.lines))
             /\ IF r.ok
                THEN /\ report' = r.val
                     /\ pc' = "put_sftp_file"
                     /\ UNCHANGED pending
                ELSE /\ RaiseInTry(e)
                     /\ UNCHANGED report
    /\ UNCHANGED <<event, period_count, auth, transport, client, period, iter, url,
                   exc, result, fn, fn_arg, fn_res>>

\* mutant: put_sftp_file logs the failure and does not raise it again
PutSftpFile_Swallowed ==
    /\ pc = "put_sftp_file"
    /\ \/ calls' = Append(calls, PutCall(period, NoExc, report))
       \/ calls' = Append(calls, PutCall(period, Exc("IOError", "putfo", iter), report))
    /\ pc' = "get_previous_month"
    /\ UNCHANGED <<event, period_count, auth, transport, client, period, iter, url,
                   report, pending, exc, result, fn, fn_arg, fn_res>>

\* line 318 and put_sftp_file (lines 271-276): client.putfo uploads the file
\* or raises, and put_sftp_file raises the exception it caught
PutSftpFile ==
    /\ pc = "put_sftp_file"
    /\ \/ /\ calls' = Append(calls, PutCall(period, NoExc, report))
          /\ pc' = "get_previous_month"
          /\ UNCHANGED pending
       \/ /\ calls' = Append(calls, PutCall(period, Exc("IOError", "putfo", iter), report))
          /\ RaiseInTry(Exc("IOError", "putfo", iter))
    /\ UNCHANGED <<event, period_count, auth, transport, client, period, iter, url,
                   report, exc, result, fn, fn_arg, fn_res>>

\* line 319: period = get_previous_month(period)
GetPreviousMonth ==
    /\ pc = "get_previous_month"
    /\ LET r == get_previous_month(period)
           e == IF r.ok THEN NoExc ELSE [r.exc EXCEPT !.at = iter]
       IN  /\ calls' = Append(calls, Call("get_previous_month", period, e))
           /\ IF r.ok
              THEN /\ period' = r.val
                   /\ pc' = "for"
                   /\ UNCHANGED pending
              ELSE /\ RaiseInTry(e)
                   /\ UNCHANGED period
    /\ UNCHANGED <<event, period_count, auth, transport, client, iter, url, report,
                   exc, result, fn, fn_arg, fn_res>>

\* line 322, in the finally clause: client.close(). If it raises, the
\* exception replaces the pending one and leaves the handler at once.
ClientClose ==
    /\ pc = "client_close"
    /\ \/ /\ calls' = Append(calls, Call("client.close", NoDate, NoExc))
          /\ client' = "closed"
          /\ pc' = "transport_close"
          /\ UNCHANGED <<exc, result>>
       \/ /\ calls' = Append(calls, Call("client.close", NoDate,
                                         Exc("SSHException", "client.close", 0)))
          /\ client' \in {"open", "closed"}
          /\ RaiseToCaller(Exc("SSHException", "client.close", 0))
    /\ UNCHANGED <<event, period_count, auth, transport, period, iter, url, report,
                   pending, fn, fn_arg, fn_res>>

\* line 323, in the finally clause: transport.close(); then the pending
\* exception, if any, is raised again
TransportClose ==
    /\ pc = "transport_close"
    /\ \/ /\ calls' = Append(calls, Call("transport.close", NoDate, NoExc))
          /\ transport' = "closed"
          /\ IF pending # NoExc
             THEN RaiseToCaller(pending)
             ELSE /\ pc' = "complete"
                  /\ UNCHANGED <<exc, result>>
       \/ /\ calls' = Append(calls, Call("transport.close", NoDate,
                                         Exc("SSHException", "transport.close", 0)))
          /\ transport' \in {"open", "closed"}
          /\ RaiseToCaller(Exc("SSHException", "transport.close", 0))
    /\ UNCHANGED <<event, period_count, auth, client, period, iter, url, report,
                   pending, fn, fn_arg, fn_res>>

\* line 325: the handler logs and returns None
Complete ==
    /\ pc = "complete"
    /\ result' = "returned"
    /\ pc' = "done"
    /\ UNCHANGED <<event, period_count, auth, transport, client, period, iter, url,
                   report, pending, exc, calls, fn, fn_arg, fn_res>>

Next ==
    \/ GetPeriodCount
    \/ GetSsmParams
    \/ GetSftpClient
    \/ Today
    \/ For
    \/ GetCsvUrl
    \/ GetBalancesCsv
    \/ PutSftpFile
    \/ GetPreviousMonth
    \/ ClientClose
    \/ TransportClose
    \/ Complete

Spec == Init /\ [][Next]_vars

(***************************************************************************)
(* get_ssm_params on its own: every answer of the secrets store built from *)
(* the options below                                                       *)
(***************************************************************************)
\* the handler is not running
HandlerIdle ==
    /\ event = EventOf(<<>>, <<>>, <<>>)
    /\ pc = "idle"
    /\ period_count = 0
    /\ auth = EmptyDict
    /\ transport = "none"
    /\ client = "none"
    /\ period = NoDate
    /\ iter = 0
    /\ url = NoStr
    /\ report = NoReport
    /\ pending = NoExc
    /\ exc = NoExc
    /\ result = "running"
    /\ calls = <<>>

UserOpts == {<<>>, <<Param(K_user, <<"u">>)>>, <<Param(K_user, <<>>)>>,
             <<[Name |-> <<"p", "/", "x", "/">> \o K_user, Value |-> <<"v">>]>>}

PassOpts == {<<>>, <<Param(K_pass, <<"w">>)>>}

HostOpts == {<<>>, <<Param(K_host, <<"h">>)>>, <<[Name |-> K_host, Value |-> <<"g">>]>>}

PortOpts ==
    {<<>>, <<Param(K_port, <<"2", "2">>)>>, <<Param(K_port, <<"2", "2", "2", "2">>)>>,
     <<Param(K_port, <<"i", "n", "v", "a", "l", "i", "d">>)>>, <<Param(K_port, <<>>)>>,
     <<Param(K_port, <<"-", "1">>)>>, <<Param(K_port, <<" ", "8", " ">>)>>,
     <<Param(K_port, <<"2", ".", "5">>)>>,
     <<Param(K_port, <<"x">>), Param(K_port, <<"2", "1">>)>>,
     <<Param(K_port, <<"2", "1">>), Param(K_port, <<"x">>)>>}

OtherOpts == {<<>>, <<Param(<<"k", "e", "y">>, <<"v">>)>>}

SsmInputs ==
    {h \o o \o u \o w \o q :
        u \in UserOpts, w \in PassOpts, h \in HostOpts, q \in PortOpts, o \in OtherOpts}

NoSsmResult == [ok |-> FALSE, val |-> EmptyDict, exc |-> NoExc]

InitSsm ==
    /\ HandlerIdle
    /\ fn = "get_ssm_params"
    /\ fn_arg \in SsmInputs
    /\ fn_res = NoSsmResult

ApplySsm ==
    /\ fn = "get_ssm_params"
    /\ fn' = "returned"
    /\ fn_res' = get_ssm_params(fn_arg)
    /\ UNCHANGED <<fn_arg, event, pc, period_count, auth, transport, client, period,
                   iter, url, report, pending, exc, result, calls>>

NextSsm == ApplySsm

SpecSsm == InitSsm /\ [][NextSsm]_vars

(***************************************************************************)
(* get_previous_month on its own: every calendar date of the years below   *)
(***************************************************************************)
PrevYears == {2023, 2024, 2025}

PrevDates ==
    {dt \in [year : PrevYears, month : 1..12, day : 1..31] : ValidDate(dt)}

NoDateResult == [ok |-> FALSE, val |-> NoDate, exc |-> NoExc]

InitPrev ==
    /\ HandlerIdle
    /\ fn = "get_previous_month"
    /\ fn_arg \in PrevDates
    /\ fn_res = NoDateResult

ApplyPrev ==
    /\ fn = "get_previous_month"
    /\ fn' = "returned"
    /\ fn_res' = get_previous_month(fn_arg)
    /\ UNCHANGED <<fn_arg, event, pc, period_count, auth, transport, client, period,
                   iter, url, report, pending, exc, result, calls>>

NextPrev == ApplyPrev

SpecPrev == InitPrev /\ [][NextPrev]_vars

(***************************************************************************)
(* Properties                                                              *)
(***************************************************************************)
CallsOf(ops) == {i \in 1..Len(calls) : calls[i].op \in ops}

Count(op) == Cardinality(CallsOf({op}))

\* get_sftp_client returned: the session was opened
SessionOpened ==
    \E i \in 1..Len(calls) : calls[i].op = "from_transport" /\ calls[i].exc = NoExc

UrlGiven == "mip_api_balances_url" \in DOMAIN event

\* the fetches and uploads of the loop, in the order they were made
LoopCalls == SelectSeq(calls, LAMBDA c : c.op \in {"get", "putfo"})

\* call i is a fetch or an upload that failed
LoopFailure(i) == calls[i].op \in {"get", "putfo"} /\ calls[i].exc # NoExc

CloseRaised ==
    \E i \in CallsOf({"client.close", "transport.close"}) : calls[i].exc # NoExc

OneMonthEarlier(dt) ==
    Date(IF dt.month = 1 THEN dt.year - 1 ELSE dt.year,
         IF dt.month = 1 THEN 12 ELSE dt.month - 1,
         dt.day)

\* C2: when no fetch and no upload fails, an invocation with period_count = N
\* performs exactly N fetch+upload cycles, each upload before the next fetch,
\* the first for today and each next one for the date one month earlier.
\* (Stated for the invocations in which closing does not raise either, which
\* only weakens the claim.)
C2_ExactlyNCyclesDescending ==
    (pc = "done" /\ SessionOpened /\ UrlGiven /\ ~CloseRaised
       /\ \A i \in 1..Len(calls) : ~LoopFailure(i))
    => /\ Len(LoopCalls) = 2 * period_count
       /\ \A k \in 1..period_count :
            /\ LoopCalls[2 * k - 1].op = "get"
            /\ LoopCalls[2 * k].op = "putfo"
            /\ LoopCalls[2 * k].date = LoopCalls[2 * k - 1].date
            /\ k = 1 => LoopCalls[1].date \in TodayDates
            /\ k > 1 => LoopCalls[2 * k - 1].date = OneMonthEarlier(LoopCalls[2 * k - 3].date)
            /\ k > 1 => DateLess(LoopCalls[2 * k - 1].date, LoopCalls[2 * k - 3].date)

\* after a fetch or an upload failed, no fetch and no upload is made
NoStepAfterFailure ==
    \A i \in 1..Len(calls) :
        LoopFailure(i) => \A j \in (i + 1)..Len(calls) : calls[j].op \notin {"get", "putfo"}

\* C3 as stated: after a failed fetch or upload no later fetch or upload is
\* made, and the handler raises that same error to its caller.
C3_SameErrorRaised ==
    /\ NoStepAfterFailure
    /\ \A i \in 1..Len(calls) :
         (LoopFailure(i) /\ pc = "done") => (result = "raised" /\ exc = calls[i].exc)

\* C3 amended: after a failed fetch or upload no later fetch or upload is
\* made and the handler never returns normally; it raises that same error
\* unless client.close() or transport.close() raises in the finally clause,
\* and then it raises the error of the close.
C3_ErrorRaisedOrCloseError ==
    /\ NoStepAfterFailure
    /\ \A i \in 1..Len(calls) :
         (LoopFailure(i) /\ pc = "done") =>
            /\ result = "raised"
            /\ IF CloseRaised
               THEN \E j \in CallsOf({"client.close", "transport.close"}) :
                       calls[j].exc # NoExc /\ exc = calls[j].exc
               ELSE exc = calls[i].exc

\* the first of two fetches failed and its error reached the caller
C3_Witness ==
    /\ pc = "done"
    /\ period_count >= 2
    /\ \E i \in CallsOf({"get"}) : calls[i].exc.at = 1 /\ exc = calls[i].exc
    /\ Len(LoopCalls) = 1
    /\ result = "raised"

\* period_count is absent, or int() rejects it, or it is below 1
BadCount ==
    \/ "period_count" \notin DOMAIN event
    \/ ~PyInt(event["period_count"]).ok
    \/ PyInt(event["period_count"]).val < 1

\* C4: with a period_count that is absent, not an integer or below 1 the
\* handler raises ValueError without having made any call to the outside
\* world; any other period_count is accepted with its integer value.
C4_BadCountFailsBeforeAnyCall ==
    /\ BadCount =>
         /\ calls = <<>>
         /\ pc \in {"get_period_count", "done"}
         /\ pc = "done" => (result = "raised" /\ exc.type = "ValueError")
    /\ (~BadCount /\ pc # "get_period_count") =>
         /\ period_count = PyInt(event["period_count"]).val
         /\ period_count >= 1
         /\ exc.origin # "get_period_count"

\* period_count = "invalid" was rejected
C4_Witness ==
    /\ pc = "done"
    /\ "period_count" \in DOMAIN event
    /\ event["period_count"] = VStr(<<"i", "n", "v", "a", "l", "i", "d">>)
    /\ result = "raised" /\ exc.type = "ValueError"
    /\ calls = <<>>

\* C5: an event without ssm_secret_prefix or without mip_api_balances_url
\* fails with ValueError and no call to the outside world is ever made.
C5_MissingKeyFailsBeforeAnyCall ==
    ("ssm_secret_prefix" \notin DOMAIN event \/ ~UrlGiven) =>
        /\ calls = <<>>
        /\ pc = "done" => (result = "raised" /\ exc.type = "ValueError")

\* C6: when the session was opened and all period_count fetches and uploads
\* succeeded, the invocation returns normally, whatever date today is.
\* (Stated for the invocations in which closing does not raise either, which
\* only weakens the claim.)
C6_SuccessForEveryToday ==
    (/\ pc = "done"
     /\ SessionOpened
     /\ \A i \in 1..Len(calls) : ~LoopFailure(i)
     /\ Count("get") = period_count /\ Count("putfo") = period_count
     /\ ~CloseRaised)
    => result = "returned"

\* C7: get_sftp_client either returns with transport and client both open
\* or fails leaving neither of them open.
C7_OpenIsAtomic ==
    /\ pc = "today" => (transport = "open" /\ client = "open")
    /\ (pc = "done" /\ exc.origin \in {"Transport", "connect", "from_transport"})
         => (transport # "open" /\ client # "open")

\* the credentials were used to open the session
CredentialsUsed == \E i \in 1..Len(calls) : calls[i].op = "Transport"

\* C9 as stated: the credentials used to open the session hold user, pass and
\* host, each non-empty, and an integer port.
C9_CredentialsNonEmpty ==
    CredentialsUsed =>
        /\ \A k \in {K_user, K_pass, K_host} :
             k \in DOMAIN auth /\ auth[k].t = "str" /\ auth[k].s # <<>>
        /\ K_port \in DOMAIN auth /\ auth[K_port].t = "int"

\* C9 amended: the credentials used to open the session hold user, pass and
\* host as the strings the store returned, empty or not, and an integer port.
C9_CredentialsPresent ==
    CredentialsUsed =>
        /\ \A k \in {K_user, K_pass, K_host} : k \in DOMAIN auth /\ auth[k].t = "str"
        /\ K_port \in DOMAIN auth /\ auth[K_port].t = "int"

\* a session was opened with an empty user name and the stored port
C9_Witness ==
    /\ SessionOpened
    /\ auth[K_user] = VStr(<<>>)
    /\ auth[K_port] = VInt(2222)

(***************************************************************************)
(* Properties of get_ssm_params (SpecSsm)                                  *)
(***************************************************************************)
\* the short names of the entries the store returned
EntryKeys(response) == {LastSegment(response[i].Name) : i \in 1..Len(response)}

\* the value stored under a short name: that of the last entry carrying it
EntryValue(response, key) ==
    LET last == CHOOSE i \in 1..Len(response) :
                    /\ LastSegment(response[i].Name) = key
                    /\ \A j \in (i + 1)..Len(response) : LastSegment(response[j].Name) # key
    IN  response[last].Value

\* C8: get_ssm_params raises KeyError when user, pass or host is absent;
\* otherwise ValueError when port is present and is not an integer; otherwise
\* it returns user, pass and host as stored and port as the parsed integer,
\* or 22 when port is absent.
C8_SsmParamsOutcome ==
    fn = "returned" =>
        LET keys == EntryKeys(fn_arg)
        IN  IF \E k \in {K_user, K_pass, K_host} : k \notin keys
            THEN ~fn_res.ok /\ fn_res.exc.type = "KeyError"
            ELSE IF K_port \in keys /\ ~IntOfStr(EntryValue(fn_arg, K_port)).ok
            THEN ~fn_res.ok /\ fn_res.exc.type = "ValueError"
            ELSE /\ fn_res.ok
                 /\ \A k \in {K_user, K_pass, K_host} :
                      fn_res.val[k] = VStr(EntryValue(fn_arg, k))
                 /\ fn_res.val[K_port] =
                      IF K_port \in keys
                      THEN VInt(IntOfStr(EntryValue(fn_arg, K_port)).val)
                      ELSE VInt(22)

\* user, pass and host were stored without a port, and the port came out as 22
C8_Witness ==
    /\ fn = "returned"
    /\ {K_user, K_pass, K_host} \subseteq EntryKeys(fn_arg)
    /\ K_port \notin EntryKeys(fn_arg)
    /\ fn_res.ok
    /\ fn_res.val[K_port] = VInt(22)

(***************************************************************************)
(* Properties of get_previous_month (SpecPrev)                             *)
(***************************************************************************)
\* the date of the month before, with the day carried through
SameDayPreviousMonth(res, dt) ==
    /\ res.ok
    /\ res.val.day = dt.day
    /\ dt.month = 1 => (res.val.year = dt.year - 1 /\ res.val.month = 12)
    /\ dt.month # 1 => (res.val.year = dt.year /\ res.val.month = dt.month - 1)

\* C10 as stated: for every calendar date get_previous_month returns the date
\* with the same day in the month before.
C10_PreviousMonthForEveryDate ==
    fn = "returned" => SameDayPreviousMonth(fn_res, fn_arg)

\* the month before has this day of the month, and is not before year 1
DayExistsInPreviousMonth(dt) ==
    IF dt.month = 1
    THEN dt.year - 1 >= MINYEAR
    ELSE dt.day <= DaysInMonth(dt.year, dt.month - 1)

\* C10 amended: get_previous_month returns the date with the same day in the
\* month before when that date exists, and raises ValueError when it does not
\* (the 29th to 31st before a shorter month, January of year 1).
C10_PreviousMonthWhenDayExists ==
    fn = "returned" =>
        IF DayExistsInPreviousMonth(fn_arg)
        THEN SameDayPreviousMonth(fn_res, fn_arg)
        ELSE ~fn_res.ok /\ fn_res.exc.type = "ValueError"

\* a January date was stepped back into December of the year before
C10_Witness ==
    /\ fn = "returned"
    /\ fn_arg = Date(2025, 1, 4)
    /\ fn_res.ok
    /\ fn_res.val = Date(2024, 12, 4)

(***************************************************************************)
(* get_csv_url on its own: every base URL up to MaxUrlLen characters       *)
(***************************************************************************)
UrlChars == {"h", "/", "?", "&"}

RECURSIVE StringsUpTo(_, _)
StringsUpTo(chars, n) ==
    IF n = 0 THEN {<<>>}
    ELSE LET shorter == StringsUpTo(chars, n - 1)
         IN  shorter \cup {Append(str, c) : str \in shorter, c \in chars}

BaseUrls == StringsUpTo(UrlChars, MaxUrlLen)

UrlDates == {Date(2025, 3, 1), Date(2024, 12, 31), Date(2025, 10, 9)}

NoStrResult == [ok |-> FALSE, val |-> NoStr, exc |-> NoExc]

InitUrl ==
    /\ HandlerIdle
    /\ fn = "get_csv_url"
    /\ fn_arg \in [base_url : BaseUrls, date : UrlDates]
    /\ fn_res = NoStrResult

ApplyUrl ==
    /\ fn = "get_csv_url"
    /\ fn' = "returned"
    /\ fn_res' = get_csv_url(EventOf(<<>>, <<>>, <<VStr(fn_arg.base_url)>>),
                             isoformat(fn_arg.date))
    /\ UNCHANGED <<fn_arg, event, pc, period_count, auth, transport, client, period,
                   iter, url, report, pending, exc, result, calls>>

NextUrl == ApplyUrl

SpecUrl == InitUrl /\ [][NextUrl]_vars

HasQuestionMark(str) == \E i \in 1..Len(str) : str[i] = "?"

\* C11: get_csv_url returns the base URL unchanged, followed by "&" when the
\* base URL holds a "?" and by "?" when it does not, followed by
\* show_inactive_codes&target_date=<date>, and nothing else.
C11_CsvUrlAppendsQuery ==
    fn = "returned" =>
        LET base == fn_arg.base_url
            n    == Len(base)
            full == fn_res.val
        IN  /\ fn_res.ok
            /\ Len(full) = n + 2 + Len(isoformat(fn_arg.date))
            /\ SubSeq(full, 1, n) = base
            /\ full[n + 1] = IF HasQuestionMark(base) THEN "&" ELSE "?"
            /\ full[n + 2] = "show_inactive_codes&target_date="
            /\ SubSeq(full, n + 3, Len(full)) = isoformat(fn_arg.date)

\* a base URL that already has a query got the parameters appended with "&"
C11_Witness ==
    /\ fn = "returned"
    /\ fn_arg.base_url = <<"h", "?", "h">>
    /\ fn_arg.date = Date(2025, 3, 1)
    /\ fn_res.val = <<"h", "?", "h", "&", "show_inactive_codes&target_date=",
                      "2", "0", "2", "5", "-", "0", "3", "-", "0", "1">>

(***************************************************************************)
(* Properties of the fetched report (Spec)                                 *)
(***************************************************************************)
\* the PeriodStart field of the first data row of a CSV body
PeriodStartOf(body) ==
    LET first == CHOOSE i \in 2..Len(body) :
                    body[i] # <<>> /\ \A j \in 2..(i - 1) : body[j] = <<>>
        col   == CHOOSE c \in 1..Len(body[1]) : body[1][c] = <<"PeriodStart">>
    IN  body[first][col]

\* name is Sage-Balances-<FullMonthName>-<Year>-<yyyyMMddHHmmss>.csv for the
\* month and year of the ISO date start
NamedAfter(name, start) ==
    /\ Len(name) = 23
    /\ name[1] = "Sage-Balances-"
    /\ name[2] = MonthName[DigitsValue(SubSeq(start, 6, 7), 0)]
    /\ name[3] = "-"
    /\ SubSeq(name, 4, 7) = SubSeq(start, 1, 4)
    /\ name[8] = "-"
    /\ \A i \in 9..22 : name[i] \in Digits
    /\ name[23] = ".csv"

\* C12: after every successful fetch the file name carries the month and the
\* year of the PeriodStart of the first data row of the fetched CSV, in the
\* form Sage-Balances-<FullMonthName>-<Year>-<yyyyMMddHHmmss>.csv, and that is
\* the name every upload is made under.
C12_NameFollowsPeriodStart ==
    /\ \A i \in CallsOf({"get"}) :
         (calls[i].exc = NoExc /\ i = Len(calls))
            => NamedAfter(report.name, PeriodStartOf(calls[i].body))
    /\ \A k \in CallsOf({"putfo"}) :
         /\ k > 1 /\ calls[k - 1].op = "get" /\ calls[k - 1].exc = NoExc
         /\ NamedAfter(calls[k].name, PeriodStartOf(calls[k - 1].body))

\* the report requested for March 2025 came back with PeriodStart 2024-12-01
\* in its first row (after a blank line) and 2025-01-01 in its second row,
\* and was uploaded as December 2024
C12_Witness ==
    \E k \in CallsOf({"putfo"}) :
        /\ calls[k].date = Date(2025, 3, 1)
        /\ calls[k - 1].date = Date(2025, 3, 1)
        /\ PeriodStartOf(calls[k - 1].body) = isoformat(Date(2024, 12, 1))
        /\ Len(calls[k - 1].body) = 4
        /\ calls[k].name[2] = "December"
        /\ SubSeq(calls[k].name, 4, 7) = <<"2", "0", "2", "4">>

\* C13: what is handed to the upload is the whole response body of the fetch
\* before it, header row and first data row included: the stream is at its
\* start again after the first row was read for the file name.
C13_WholeBodyUploaded ==
    /\ \A i \in CallsOf({"get"}) :
         (calls[i].exc = NoExc /\ i = Len(calls))
            => (report.file_obj.pos = 0 /\ report.file_obj.lines = calls[i].body)
    /\ \A k \in CallsOf({"putfo"}) :
         /\ k > 1 /\ calls[k - 1].op = "get" /\ calls[k - 1].exc = NoExc
         /\ calls[k].content = calls[k - 1].body
         /\ calls[k].content[1] = CsvHeader

\* a body with a blank line and two rows after the header was uploaded whole
C13_Witness ==
    \E k \in CallsOf({"putfo"}) :
        /\ Len(calls[k - 1].body) = 4
        /\ calls[k].content = calls[k - 1].body
        /\ Len(calls[k].content) = 4
        /\ calls[k].exc = NoExc

(***************************************************************************)
(* Properties of the loop and of the session (Spec)                        *)
(***************************************************************************)
\* every period was fetched and uploaded
AllPeriodsProcessed ==
    Cardinality({i \in CallsOf({"putfo"}) : calls[i].exc = NoExc}) = period_count

\* C14: in an invocation that processed all N periods the previous-month step
\* was applied exactly N - 1 times, and never after the last upload.
C14_PreviousMonthAppliedNMinusOneTimes ==
    (pc = "done" /\ result = "returned" /\ AllPeriodsProcessed) =>
        /\ Count("get_previous_month") = period_count - 1
        /\ \A i \in CallsOf({"get_previous_month"}) :
             \E j \in CallsOf({"putfo"}) : i < j

\* C15: a fetch or an upload is made only after the session was opened and
\* before it is closed, with client and transport open; when the secrets
\* lookup or the opening of the session fails, the handler raises that
\* error at once and makes no fetch and no upload.
C15_FetchAndUploadOnlyWhileOpen ==
    /\ \A i \in CallsOf({"get", "putfo"}) :
         /\ \E j \in 1..(i - 1) : calls[j].op = "from_transport" /\ calls[j].exc = NoExc
         /\ \A j \in 1..(i - 1) : calls[j].op \notin {"client.close", "transport.close"}
    /\ pc \in {"get_csv_url", "get_balances_csv", "put_sftp_file"}
         => (client = "open" /\ transport = "open")
    /\ \A i \in CallsOf({"ssm", "Transport", "connect", "from_transport"}) :
         calls[i].exc # NoExc =>
            (i = Len(calls) /\ pc = "done" /\ result = "raised" /\ exc = calls[i].exc)
    /\ (pc = "done" /\ ~SessionOpened) =>
         (result = "raised" /\ CallsOf({"get", "putfo"}) = {})

\* opening the session failed after the secrets were read: the handler
\* raised that error and fetched nothing
C15_Witness ==
    /\ pc = "done"
    /\ \E i \in CallsOf({"from_transport"}) : calls[i].exc # NoExc /\ exc = calls[i].exc
    /\ \E i \in CallsOf({"ssm"}) : calls[i].exc = NoExc
    /\ result = "raised"
    /\ CallsOf({"get", "putfo"}) = {}

\* C16: when an invocation that opened the session ends, client.close() and
\* transport.close() have both been called, whichever way the handler was
\* left, the one where client.close() raises included.
C16_BothClosesAttempted ==
    (pc = "done" /\ SessionOpened) =>
        /\ Count("client.close") = 1
        /\ Count("transport.close") = 1

====
